---- MODULE Spec2Model ----
(***************************************************************************)
(* Model of img2dna-simple: the bit/base codec of app/main.py and          *)
(* app/utils_dna.py, the chunk generator of app/utils_dna.py, and the      *)
(* in-memory job store with its request handlers of app/main.py.           *)
(*                                                                         *)
(* A Python str is a sequence of one-character strings, a Python bytes a   *)
(* sequence of integers in 0..255.  A call that can raise returns a record *)
(* [err, val]: err = "none" and the value, or the exception and <<>>.      *)
(***************************************************************************)
EXTENDS Integers, Sequences, FiniteSets, TLC

VARIABLES
    impl, data, order, text, val, pc,                 \* codec runs
    chunk_bits, idx, buf, bits_in_buf, yielded, gpc,  \* iter_bits_chunks
    API_KEY, JOBS, now, next_id, resp                 \* the service

codecVars == <<impl, data, order, text, val, pc>>
chunkVars == <<chunk_bits, idx, buf, bits_in_buf, yielded, gpc>>
svcVars   == <<API_KEY, JOBS, now, next_id, resp>>
vars      == <<codecVars, chunkVars, svcVars>>

----------------------------------------------------------------------------
(* Bounds of the model. *)

MaxBytes == 2        \* longest byte buffer given to the codec and the chunker
MaxChunkBits == 17   \* largest chunk size (one more than the 16 bits of 2 bytes)
MaxBitLen == 9       \* longest string given to bits_to_bytes
MaxDnaLen == 2       \* longest string given to dna_to_bits
MaxJobs == 2         \* job ids the service hands out
MaxTicks == 3        \* clock steps

\* Byte values of the buffers: 0x00, 0x1B (00 01 10 11), 0x41 ("A"), 0xFF.
ByteVals == {0, 27, 65, 255}
\* Characters of strings given to bits_to_bytes; "x" is any non-bit character.
BitChars == {"0", "1", "x"}
\* Characters alphabets are drawn from.
OrderChars == {"A", "C", "G", "T", "U", "a"}
\* Characters of strings given to dna_to_bits.
DnaChars == {"A", "C", "G", "T", "U", "a", "t"}

SeqsUpTo(S, n) == UNION {[1..k -> S] : k \in 0..n}
Buffers == SeqsUpTo(ByteVals, MaxBytes)
BitStrings == SeqsUpTo(BitChars, MaxBitLen)
DnaStrings == SeqsUpTo(DnaChars, MaxDnaLen)
\* Every alphabet of 4 distinct characters.
Alphabets == {o \in [1..4 -> OrderChars] : \A i, j \in 1..4 : i # j => o[i] # o[j]}

----------------------------------------------------------------------------
(* Python primitives the codec uses. *)

Ok(v) == [err |-> "none", val |-> v]
Fail(e) == [err |-> e, val |-> <<>>]

\* f"{x:08b}": 8 binary digits, most significant first.
Bit8(x) == [k \in 1..8 |-> IF (x \div 2^(8 - k)) % 2 = 1 THEN "1" ELSE "0"]

\* "".join(parts)
RECURSIVE Join(_)
Join(parts) == IF parts = <<>> THEN <<>> ELSE Head(parts) \o Join(Tail(parts))

\* "".join(ch for ch in s if ch in allowed)
Keep(s, allowed) == SelectSeq(s, LAMBDA ch : ch \in allowed)

\* "0" * n
Zeros(n) == [k \in 1..n |-> "0"]

\* str.upper() on the characters of the model.
UpperCh(ch) ==
    CASE ch = "a" -> "A" [] ch = "c" -> "C" [] ch = "g" -> "G"
      [] ch = "t" -> "T" [] ch = "u" -> "U" [] OTHER -> ch
Upper(s) == [k \in 1..Len(s) |-> UpperCh(s[k])]

\* int(s, 2) succeeds on a string of binary digits; any other character of
\* the model makes it raise ValueError.
IsBinary(s) == \A k \in 1..Len(s) : s[k] \in {"0", "1"}
RECURSIVE Int2(_)
Int2(s) == IF s = <<>> THEN 0
           ELSE 2 * Int2(SubSeq(s, 1, Len(s) - 1)) + (IF s[Len(s)] = "1" THEN 1 ELSE 0)

\* s[i:i+n] for i in range(0, len(s), n), i counted from group 1.
Group(s, k, n) == SubSeq(s, n * (k - 1) + 1, IF n * k <= Len(s) THEN n * k ELSE Len(s))
NGroups(s, n) == (Len(s) + n - 1) \div n

\* The 2-bit groups in dict order of lut / rev.
Pairs == << <<"0", "0">>, <<"0", "1">>, <<"1", "0">>, <<"1", "1">> >>
PairIndex(p) == CHOOSE i \in 1..4 : Pairs[i] = p

\* rev = {order[0]: "00", ...}: a later entry overwrites an earlier one with
\* the same key.
RevHas(ord, ch) == \E i \in 1..4 : ord[i] = ch
RevGet(ord, ch) ==
    Pairs[CHOOSE i \in 1..4 : ord[i] = ch /\ \A j \in 1..4 : ord[j] = ch => j <= i]

----------------------------------------------------------------------------
(* app/main.py: the service codec. *)

_bytes_to_bits(b) == Join([k \in 1..Len(b) |-> Bit8(b[k])])

_bits_to_bytes(bits) ==
    LET clean == Keep(bits, {"0", "1"})
        padded == IF Len(clean) % 8 # 0
                  THEN clean \o Zeros(8 - (Len(clean) % 8))
                  ELSE clean
    IN  Ok([k \in 1..NGroups(padded, 8) |-> Int2(Group(padded, k, 8))])

_bits_to_dna(bits, ord) ==
    LET clean == Keep(bits, {"0", "1"})
        padded == IF Len(clean) % 2 # 0 THEN clean \o <<"0">> ELSE clean
    IN  IF Len(ord) < 4 THEN Fail("IndexError")
        ELSE Ok([k \in 1..NGroups(padded, 2) |-> ord[PairIndex(Group(padded, k, 2))]])

_dna_to_bits(dna, ord) ==
    LET clean == Keep(Upper(dna), {"A", "C", "G", "T"})
    IN  IF Len(ord) < 4 THEN Fail("IndexError")
        ELSE IF \E k \in 1..Len(clean) : ~RevHas(ord, clean[k]) THEN Fail("HTTP400")
        ELSE Ok(Join([k \in 1..Len(clean) |-> RevGet(ord, clean[k])]))

----------------------------------------------------------------------------
(* app/utils_dna.py: the library codec. *)

bytes_to_bits(b) == Join([k \in 1..Len(b) |-> Bit8(b[k])])

bits_to_bytes(bits) ==
    LET padded == IF Len(bits) % 8 # 0
                  THEN bits \o Zeros(8 - (Len(bits) % 8))
                  ELSE bits
    IN  IF \E k \in 1..NGroups(padded, 8) : ~IsBinary(Group(padded, k, 8))
        THEN Fail("ValueError")
        ELSE Ok([k \in 1..NGroups(padded, 8) |-> Int2(Group(padded, k, 8))])

bits_to_dna(bits, ord) ==
    LET padded == IF Len(bits) % 2 # 0 THEN bits \o <<"0">> ELSE bits
    IN  IF Len(ord) < 4 THEN Fail("IndexError")
        ELSE IF \E k \in 1..NGroups(padded, 2) : ~IsBinary(Group(padded, k, 2))
        THEN Fail("KeyError")
        ELSE Ok([k \in 1..NGroups(padded, 2) |-> ord[PairIndex(Group(padded, k, 2))]])

dna_to_bits(dna, ord) ==
    IF Len(ord) < 4 THEN Fail("IndexError")
    ELSE IF \E k \in 1..Len(dna) : ~RevHas(ord, dna[k]) THEN Fail("ValueError")
    ELSE Ok(Join([k \in 1..Len(dna) |-> RevGet(ord, dna[k])]))

----------------------------------------------------------------------------
(* Values of the variables a specification does not use. *)

CodecIdle ==
    /\ impl = "none" /\ data = <<>> /\ order = <<>> /\ text = <<>>
    /\ val = Ok(<<>>) /\ pc = "idle"
ChunkIdle ==
    /\ chunk_bits = 1 /\ idx = 0 /\ buf = <<>> /\ bits_in_buf = 0
    /\ yielded = <<>> /\ gpc = "idle"
SvcIdle ==
    /\ API_KEY = "" /\ JOBS = <<>> /\ now = 0 /\ next_id = 1
    /\ resp = [op |-> "none", key |-> "", job_id |-> 0, status |-> 0, body |-> <<>>,
               active_jobs |-> 0]

----------------------------------------------------------------------------
(* The round trip bytes -> bits -> DNA -> bits -> bytes, in either codec.  *)
(* An exception ends the run with the failure as its result.               *)

Codecs == {"main", "utils"}

Advance(r, nextpc) ==
    /\ val' = r
    /\ pc' = IF r.err = "none" THEN nextpc ELSE "done"
    /\ UNCHANGED <<impl, data, order, text, chunkVars, svcVars>>

BytesToBits ==
    /\ pc = "bytes"
    /\ Advance(Ok(IF impl = "main" THEN _bytes_to_bits(val.val)
                  ELSE bytes_to_bits(val.val)), "bits")

BitsToDna ==
    /\ pc = "bits"
    /\ Advance(IF impl = "main" THEN _bits_to_dna(val.val, order)
               ELSE bits_to_dna(val.val, order), "dna")

DnaToBits ==
    /\ pc = "dna"
    /\ Advance(IF impl = "main" THEN _dna_to_bits(val.val, order)
               ELSE dna_to_bits(val.val, order), "bits2")

BitsToBytes ==
    /\ pc = "bits2"
    /\ Advance(IF impl = "main" THEN _bits_to_bytes(val.val)
               ELSE bits_to_bytes(val.val), "done")

InitCodec ==
    /\ impl \in Codecs
    /\ data \in Buffers
    /\ order \in Alphabets
    /\ text = <<>>
    /\ val = Ok(data)
    /\ pc = "bytes"
    /\ ChunkIdle /\ SvcIdle

NextCodec == BytesToBits \/ BitsToDna \/ DnaToBits \/ BitsToBytes

SpecCodec == InitCodec /\ [][NextCodec]_vars

----------------------------------------------------------------------------
(* bits_to_bytes on an arbitrary string. *)

ParseBits ==
    /\ pc = "parse_bits"
    /\ Advance(IF impl = "main" THEN _bits_to_bytes(text) ELSE bits_to_bytes(text),
               "done")

InitBits ==
    /\ impl \in Codecs
    /\ text \in BitStrings
    /\ data = <<>> /\ order = <<>>
    /\ val = Ok(text)
    /\ pc = "parse_bits"
    /\ ChunkIdle /\ SvcIdle

SpecBits == InitBits /\ [][ParseBits]_vars

----------------------------------------------------------------------------
(* dna_to_bits on an arbitrary string and alphabet. *)

ParseDna ==
    /\ pc = "parse_dna"
    /\ Advance(IF impl = "main" THEN _dna_to_bits(text, order)
               ELSE dna_to_bits(text, order), "done")

InitDna ==
    /\ impl \in Codecs
    /\ text \in DnaStrings
    /\ order \in Alphabets
    /\ data = <<>>
    /\ val = Ok(text)
    /\ pc = "parse_dna"
    /\ ChunkIdle /\ SvcIdle

SpecDna == InitDna /\ [][ParseDna]_vars

----------------------------------------------------------------------------
(* app/utils_dna.py iter_bits_chunks(data, chunk_bits), one action per     *)
(* step of the generator; yielded is the list of chunks yielded so far.    *)

\* joined[:n] and joined[n:] for n > 0
SliceTo(s, n) == SubSeq(s, 1, IF n <= Len(s) THEN n ELSE Len(s))
SliceFrom(s, n) == SubSeq(s, n + 1, Len(s))

\* rem = joined[chunk_bits:]
LostRemainder(joined, n) == <<>>
Remainder(joined, n) == SliceFrom(joined, n)

\* if bits_in_buf > 0
TailPendingAlways(n) == n >= 0
TailPending(n) == n > 0

ForNext ==
    /\ gpc = "for" /\ idx < Len(data)
    /\ idx' = idx + 1
    /\ buf' = Append(buf, Bit8(data[idx + 1]))
    /\ bits_in_buf' = bits_in_buf + 8
    /\ gpc' = "while"
    /\ UNCHANGED <<chunk_bits, yielded, codecVars, svcVars>>

WhileEmit ==
    /\ gpc = "while" /\ bits_in_buf >= chunk_bits
    /\ LET joined == Join(buf)
           rem == Remainder(joined, chunk_bits)
       IN  /\ yielded' = Append(yielded, SliceTo(joined, chunk_bits))
           /\ buf' = IF rem # <<>> THEN <<rem>> ELSE <<>>
           /\ bits_in_buf' = Len(rem)
    /\ UNCHANGED <<chunk_bits, idx, gpc, codecVars, svcVars>>

WhileExit ==
    /\ gpc = "while" /\ bits_in_buf < chunk_bits
    /\ gpc' = "for"
    /\ UNCHANGED <<chunk_bits, idx, buf, bits_in_buf, yielded, codecVars, svcVars>>

ForEnd ==
    /\ gpc = "for" /\ idx = Len(data)
    /\ gpc' = "tail"
    /\ UNCHANGED <<chunk_bits, idx, buf, bits_in_buf, yielded, codecVars, svcVars>>

TailYield ==
    /\ gpc = "tail" /\ TailPending(bits_in_buf)
    /\ yielded' = Append(yielded, Join(buf))
    /\ gpc' = "done"
    /\ UNCHANGED <<chunk_bits, idx, buf, bits_in_buf, codecVars, svcVars>>

TailSkip ==
    /\ gpc = "tail" /\ ~TailPending(bits_in_buf)
    /\ gpc' = "done"
    /\ UNCHANGED <<chunk_bits, idx, buf, bits_in_buf, yielded, codecVars, svcVars>>

InitChunks ==
    /\ data \in Buffers
    /\ chunk_bits \in 1..MaxChunkBits
    /\ idx = 0 /\ buf = <<>> /\ bits_in_buf = 0 /\ yielded = <<>>
    /\ gpc = "for"
    /\ impl = "none" /\ order = <<>> /\ text = <<>> /\ val = Ok(<<>>) /\ pc = "idle"
    /\ SvcIdle

NextChunks == ForNext \/ WhileEmit \/ WhileExit \/ ForEnd \/ TailYield \/ TailSkip

SpecChunks == InitChunks /\ [][NextChunks]_vars

\* The consumer drives the generator until it is exhausted.
FairChunks == SpecChunks /\ WF_vars(NextChunks)

----------------------------------------------------------------------------
(* app/main.py: the job store and the request handlers.                    *)
(*                                                                         *)
(* JOBS maps a job id to its record.  now is time.time().  resp is the     *)
(* response of the request handled by the last step (op "none" after a     *)
(* step that is not a request): op, the x-api-key header the request       *)
(* carried, the job id asked for or created, the HTTP status, the body,    *)
(* and active_jobs for /health.                                            *)
(*                                                                         *)
(* A handler is one step: the handlers run on one event loop and await     *)
(* only the fetch of image_url / dna_url, whose outcome is part of the     *)
(* payload here.  What the image library and the network do is given by    *)
(* the payload; the job id of uuid4 is an id not handed out before.        *)
(***************************************************************************)

JOB_TTL_SEC == 900

\* The clock advances by half a time-to-live at a time, so a record's age
\* takes the values below, at and above JOB_TTL_SEC.
TickStep == JOB_TTL_SEC \div 2

\* API_KEY = os.getenv("API_KEY"): "" is unset (or empty), both falsy.
ApiKeys == {"", "secret"}
\* request.headers.get("x-api-key"): "" is a request without the header.
Headers == {"", "secret", "wrong"}

\* Byte buffers PIL opens as an image; _image_to_png_bytes returns them.
PngSamples == {<<27>>}
\* mapping_order of a payload; "AC" is too short for lut / rev.
SvcOrders == {<<"A", "C", "G", "T">>, <<"A", "C">>}
\* dna_text of a decode payload.
DecodeTexts == {<<>>, <<"a", "c", "g", "t">>, <<"A", "C", "G">>, <<"U", "x">>}
\* Job ids a download can ask for: 0 is an id the service never created.
RequestIds == 0..MaxJobs

\* A payload of encode_simple_json: what becomes of its image (no image_b64
\* or image_url, undecodable base64, a failed fetch, raw bytes over
\* MAX_UPLOAD_MB, bytes PIL cannot open, or an image), the PNG bytes
\* _image_to_png_bytes makes of it, and the fields read before the image is
\* used.  mapping_order is read only once the image is a PNG.
EncodePayloads ==
    {p \in [image : {"missing", "bad_b64", "fetch_failed", "too_large",
                     "not_image", "ok"},
            png : PngSamples,
            mapping_order : SvcOrders,
            max_side : {"bad", "256"}] :
        p.image # "ok" => p.mapping_order = <<"A", "C", "G", "T">>}

\* A payload of decode_simple_json: no dna_text or dna_url, a dna_url whose
\* fetch fails, or the text given or fetched, with its mapping_order.
DecodePayloads ==
    {p \in [dna : {"missing", "fetch_failed", "text"},
            dna_text : DecodeTexts,
            mapping_order : SvcOrders] :
        p.dna # "text" => p.dna_text = <<>> /\ p.mapping_order = <<"A", "C", "G", "T">>}

Response(op, key, jid, status, body) ==
    [op |-> op, key |-> key, job_id |-> jid, status |-> status, body |-> body,
     active_jobs |-> 0]

\* _enforce_api_key raises 401
_enforce_api_key(key) == API_KEY # "" /\ key # API_KEY

\* _cleanup_jobs with >= for >
_cleanup_jobs_ge(jobs, t) ==
    LET expired == {jid \in DOMAIN jobs : t - jobs[jid].created >= JOB_TTL_SEC}
    IN  [jid \in DOMAIN jobs \ expired |-> jobs[jid]]

_cleanup_jobs(jobs, t) ==
    LET expired == {jid \in DOMAIN jobs : t - jobs[jid].created > JOB_TTL_SEC}
    IN  [jid \in DOMAIN jobs \ expired |-> jobs[jid]]

\* str(uuid.uuid4()) returning the id of the call before
ReusedJobId == IF next_id > 1 THEN next_id - 1 ELSE next_id
\* str(uuid.uuid4()): an id no earlier call returned
NewJobId == next_id

\* JOBS[job_id] = record
Store(jobs, jid, rec) == [j \in DOMAIN jobs \cup {jid} |-> IF j = jid THEN rec ELSE jobs[j]]

Image_open(bytes) == bytes \in PngSamples

health ==
    /\ JOBS' = _cleanup_jobs(JOBS, now)
    /\ resp' = [Response("health", "", 0, 200, <<>>) EXCEPT
                   !.active_jobs = Cardinality(DOMAIN JOBS')]
    /\ UNCHANGED <<API_KEY, now, next_id, codecVars, chunkVars>>

head_root ==
    /\ resp' = Response("head_root", "", 0, 200, <<>>)
    /\ UNCHANGED <<API_KEY, JOBS, now, next_id, codecVars, chunkVars>>

index ==
    /\ resp' = Response("index", "", 0, 200, <<>>)
    /\ UNCHANGED <<API_KEY, JOBS, now, next_id, codecVars, chunkVars>>

\* The outcome of encode_simple_json after the key check and the sweep:
\* the status, and the record to store when the status is 200.
EncodeOutcome(payload, t) ==
    LET dna == _bits_to_dna(_bytes_to_bits(payload.png), payload.mapping_order)
    IN  IF payload.max_side = "bad" THEN [status |-> 500, rec |-> <<>>]
        ELSE IF payload.image \in {"missing", "bad_b64", "fetch_failed"}
        THEN [status |-> 400, rec |-> <<>>]
        ELSE IF payload.image = "too_large" THEN [status |-> 413, rec |-> <<>>]
        ELSE IF payload.image = "not_image" THEN [status |-> 400, rec |-> <<>>]
        ELSE IF dna.err # "none" THEN [status |-> 500, rec |-> <<>>]
        ELSE [status |-> 200,
              rec |-> [created |-> t, png_bytes |-> payload.png, dna |-> dna.val,
                       meta |-> [mapping_order |-> payload.mapping_order,
                                 max_side |-> 256]]]

encode_simple_json ==
    \E key \in Headers, payload \in EncodePayloads :
        /\ IF _enforce_api_key(key)
           THEN /\ resp' = Response("encode", key, 0, 401, <<>>)
                /\ UNCHANGED <<JOBS, next_id>>
           ELSE LET swept == _cleanup_jobs(JOBS, now)
                    out == EncodeOutcome(payload, now)
                IN  IF out.status # 200
                    THEN /\ JOBS' = swept
                         /\ resp' = Response("encode", key, 0, out.status, <<>>)
                         /\ UNCHANGED next_id
                    ELSE /\ next_id <= MaxJobs
                         /\ JOBS' = Store(swept, NewJobId, out.rec)
                         /\ next_id' = next_id + 1
                         /\ resp' = Response("encode", key, NewJobId, 200, out.rec.dna)
        /\ UNCHANGED <<API_KEY, now, codecVars, chunkVars>>

\* job = JOBS.get(job_id); if not job: 404; job["dna"]
DnaResponse(jobs, jid) ==
    IF jid \notin DOMAIN jobs THEN [status |-> 404, body |-> <<>>]
    ELSE IF "dna" \notin DOMAIN jobs[jid] THEN [status |-> 500, body |-> <<>>]
    ELSE [status |-> 200, body |-> jobs[jid].dna]

download_dna ==
    \E key \in Headers, job_id \in RequestIds :
        /\ LET r == DnaResponse(JOBS, job_id)
           IN  resp' = Response("download_dna", key, job_id, r.status, r.body)
        /\ UNCHANGED <<API_KEY, JOBS, now, next_id, codecVars, chunkVars>>

\* job = JOBS.get(job_id); if not job: 404; job["png_bytes"]
ImageResponse(jobs, jid) ==
    IF jid \notin DOMAIN jobs THEN [status |-> 404, body |-> <<>>]
    ELSE IF "png_bytes" \notin DOMAIN jobs[jid] THEN [status |-> 500, body |-> <<>>]
    ELSE [status |-> 200, body |-> jobs[jid].png_bytes]

download_image ==
    \E key \in Headers, job_id \in RequestIds :
        /\ LET r == ImageResponse(JOBS, job_id)
           IN  resp' = Response("download_image", key, job_id, r.status, r.body)
        /\ UNCHANGED <<API_KEY, JOBS, now, next_id, codecVars, chunkVars>>

\* The outcome of decode_simple_json after the key check.
DecodeOutcome(payload, t) ==
    LET dna_clean == Keep(Upper(payload.dna_text), {"A", "C", "G", "T"})
        bits == _dna_to_bits(dna_clean, payload.mapping_order)
        img == _bits_to_bytes(bits.val)
    IN  IF payload.dna \in {"missing", "fetch_failed"} THEN [status |-> 400, rec |-> <<>>]
        ELSE IF dna_clean = <<>> THEN [status |-> 400, rec |-> <<>>]
        ELSE IF bits.err = "IndexError" THEN [status |-> 500, rec |-> <<>>]
        ELSE IF bits.err # "none" THEN [status |-> 400, rec |-> <<>>]
        ELSE IF ~Image_open(img.val) THEN [status |-> 400, rec |-> <<>>]
        ELSE [status |-> 200,
              rec |-> [created |-> t, recon_png_bytes |-> img.val,
                       meta |-> [mapping_order |-> payload.mapping_order]]]

decode_simple_json ==
    \E key \in Headers, payload \in DecodePayloads :
        /\ IF _enforce_api_key(key)
           THEN /\ resp' = Response("decode", key, 0, 401, <<>>)
                /\ UNCHANGED <<JOBS, next_id>>
           ELSE LET out == DecodeOutcome(payload, now)
                IN  IF out.status # 200
                    THEN /\ resp' = Response("decode", key, 0, out.status, <<>>)
                         /\ UNCHANGED <<JOBS, next_id>>
                    ELSE /\ next_id <= MaxJobs
                         /\ JOBS' = Store(JOBS, NewJobId, out.rec)
                         /\ next_id' = next_id + 1
                         /\ resp' = Response("decode", key, NewJobId, 200,
                                             out.rec.recon_png_bytes)
        /\ UNCHANGED <<API_KEY, now, codecVars, chunkVars>>

\* if not job or "recon_png_bytes" not in job: 404, without the first test
ReconResponseNoGet(jobs, jid) ==
    IF jid \notin DOMAIN jobs THEN [status |-> 500, body |-> <<>>]
    ELSE IF "recon_png_bytes" \notin DOMAIN jobs[jid] THEN [status |-> 404, body |-> <<>>]
    ELSE [status |-> 200, body |-> jobs[jid].recon_png_bytes]

\* job = JOBS.get(job_id); if not job or "recon_png_bytes" not in job: 404
ReconResponse(jobs, jid) ==
    IF jid \notin DOMAIN jobs \/ "recon_png_bytes" \notin DOMAIN jobs[jid]
    THEN [status |-> 404, body |-> <<>>]
    ELSE [status |-> 200, body |-> jobs[jid].recon_png_bytes]

download_reconstructed ==
    \E key \in Headers, job_id \in RequestIds :
        /\ LET r == ReconResponse(JOBS, job_id)
           IN  resp' = Response("download_reconstructed", key, job_id, r.status, r.body)
        /\ UNCHANGED <<API_KEY, JOBS, now, next_id, codecVars, chunkVars>>

\* Time passes between requests.
Tick ==
    /\ now \div TickStep < MaxTicks
    /\ now' = now + TickStep
    /\ resp' = Response("none", "", 0, 0, <<>>)
    /\ UNCHANGED <<API_KEY, JOBS, next_id, codecVars, chunkVars>>

Init ==
    /\ API_KEY \in ApiKeys
    /\ JOBS = <<>>
    /\ now = 0
    /\ next_id = 1
    /\ resp = Response("none", "", 0, 0, <<>>)
    /\ CodecIdle /\ ChunkIdle

Next ==
    \/ health \/ head_root \/ index
    \/ encode_simple_json \/ download_dna \/ download_image
    \/ decode_simple_json \/ download_reconstructed
    \/ Tick

Spec == Init /\ [][Next]_vars

----------------------------------------------------------------------------
(* Properties of the codec. *)

\* C1: round-trip identity.  For every byte buffer and every alphabet of 4
\* distinct characters, bytes -> bits -> DNA -> bits -> bytes ends with the
\* buffer it started from, in the codec of main.py and in that of
\* utils_dna.py.
RoundTripIdentity == pc = "done" => val = Ok(data)

\* What C4 says bitsToBytes returns: the bytes of the 8-bit groups of the
\* string without its non-bit characters, right-padded with "0" to a
\* multiple of 8.
TolerantBytes(s) ==
    LET clean == SelectSeq(s, LAMBDA ch : ch = "0" \/ ch = "1")
        n == (8 - (Len(clean) % 8)) % 8
        padded == clean \o [k \in 1..n |-> "0"]
    IN  [k \in 1..(Len(padded) \div 8) |-> Int2(SubSeq(padded, 8 * k - 7, 8 * k))]

\* C4: tolerant bit parsing.  On any string, _bits_to_bytes of main.py and
\* bits_to_bytes of utils_dna.py drop the characters other than 0 and 1,
\* right-pad with 0 bits to a multiple of 8 and return the bytes of the
\* 8-bit groups, most significant bit first; neither fails.
TolerantBitParsing == pc = "done" => val = Ok(TolerantBytes(text))

\* What C5 says sequenceToBits emits: the 2-bit group of each character of
\* the upper-cased string that is in the given alphabet.
NormalizedBits(s, ord) ==
    LET kept == SelectSeq(Upper(s), LAMBDA ch : \E i \in 1..4 : ord[i] = ch)
    IN  Join([k \in 1..Len(kept) |-> Pairs[CHOOSE i \in 1..4 : ord[i] = kept[k]]])

\* C5: normalization in the service codec.  On any string and any alphabet,
\* _dna_to_bits of main.py upper-cases the string, removes exactly the
\* characters that are not in the given alphabet and emits the 2-bit group
\* the alphabet gives each remaining character, in order.
SequenceToBitsNormalization ==
    (pc = "done" /\ impl = "main") => val = Ok(NormalizedBits(text, order))

----------------------------------------------------------------------------
(* Properties of iter_bits_chunks. *)

\* C2: chunk concatenation.  The chunks yielded so far followed by the
\* buffered bits are the bit expansion of the bytes consumed so far, and
\* once the generator is exhausted the chunks, concatenated in yield order,
\* are bytes_to_bits(data): no bit lost, duplicated, reordered or padded.
ChunkConcatenation ==
    /\ gpc \in {"for", "while", "tail"} =>
           Join(yielded) \o Join(buf) = bytes_to_bits(SubSeq(data, 1, idx))
    /\ gpc = "done" => Join(yielded) = bytes_to_bits(data)

\* A run that yielded several full chunks and a shorter last one.
ChunkConcatenationWitness ==
    /\ gpc = "done"
    /\ Len(data) = 2
    /\ Len(yielded) >= 3
    /\ Len(yielded[Len(yielded)]) < chunk_bits
    /\ Join(yielded) = Bit8(data[1]) \o Bit8(data[2])

CeilDiv(a, b) == (a + b - 1) \div b

ChunkShape ==
    /\ Len(yielded) = CeilDiv(8 * Len(data), chunk_bits)
    /\ \A k \in 1..Len(yielded) - 1 : Len(yielded[k]) = chunk_bits
    /\ yielded # <<>> =>
           /\ Len(yielded[Len(yielded)]) >= 1
           /\ Len(yielded[Len(yielded)]) <= chunk_bits

\* C3: chunk partition shape.  For n bytes and a positive chunk size c the
\* generator terminates, having yielded ceil(8n / c) chunks: each but the
\* last has exactly c bits, the last has between 1 and c bits, and there is
\* no chunk when n = 0.
ChunkPartitionShape == [](gpc = "done" => ChunkShape) /\ <>(gpc = "done")

\* An exhausted run over 2 bytes with chunk size 5: 3 full chunks and 1 bit.
ChunkPartitionShapeWitness ==
    /\ gpc = "done"
    /\ Len(data) = 2 /\ chunk_bits = 5
    /\ Len(yielded) = 4
    /\ Len(yielded[4]) = 1

----------------------------------------------------------------------------
(* Properties of the job store and the handlers. *)

DownloadOps == {"download_dna", "download_image", "download_reconstructed"}
DataOps == {"encode", "decode"} \cup DownloadOps

Age(jobs, jid, t) == t - jobs[jid].created

\* Each artifact the record stores is returned by its download.
Retrievable(jobs, jid) ==
    LET job == jobs[jid]
    IN  /\ "dna" \in DOMAIN job =>
               DnaResponse(jobs, jid) = [status |-> 200, body |-> job.dna]
        /\ "png_bytes" \in DOMAIN job =>
               ImageResponse(jobs, jid) = [status |-> 200, body |-> job.png_bytes]
        /\ "recon_png_bytes" \in DOMAIN job =>
               ReconResponse(jobs, jid) = [status |-> 200, body |-> job.recon_png_bytes]

NotFound(jobs, jid) ==
    /\ DnaResponse(jobs, jid) = [status |-> 404, body |-> <<>>]
    /\ ImageResponse(jobs, jid) = [status |-> 404, body |-> <<>>]
    /\ ReconResponse(jobs, jid) = [status |-> 404, body |-> <<>>]

\* C6: expiry sweep.  A health request at time now removes every job whose
\* age exceeds JOB_TTL_SEC and keeps every other job, its record unchanged
\* and retrievable; a job that has been removed stays absent, so that every
\* later lookup of it is NotFound.
ExpirySweep ==
    [][/\ resp'.op = "health" =>
            \A jid \in DOMAIN JOBS :
                IF Age(JOBS, jid, now) > JOB_TTL_SEC
                THEN jid \notin DOMAIN JOBS' /\ NotFound(JOBS', jid)
                ELSE /\ jid \in DOMAIN JOBS'
                     /\ JOBS'[jid] = JOBS[jid]
                     /\ Retrievable(JOBS', jid)
       /\ \A jid \in 1..MaxJobs :
            (jid < next_id /\ jid \notin DOMAIN JOBS) =>
                jid \notin DOMAIN JOBS' /\ NotFound(JOBS', jid)]_vars

\* After a health request that removed a job and kept one whose age is
\* exactly JOB_TTL_SEC.
ExpirySweepWitness ==
    /\ resp.op = "health"
    /\ resp.active_jobs = 1
    /\ \E jid \in 1..MaxJobs : jid < next_id /\ jid \notin DOMAIN JOBS
    /\ \E jid \in DOMAIN JOBS : Age(JOBS, jid, now) = JOB_TTL_SEC

\* C7 as claimed: a download of a job id that is unknown, or whose record
\* is older than JOB_TTL_SEC at the time of the request, fails with 404 and
\* returns no stored data, whether or not a sweep has run since.
ExpiredLookupFails ==
    (/\ resp.op \in DownloadOps
     /\ \/ resp.job_id \notin DOMAIN JOBS
        \/ Age(JOBS, resp.job_id, now) > JOB_TTL_SEC)
    => (resp.status = 404 /\ resp.body = <<>>)

\* C7 as amended: a download of a job id that is not in the job store
\* (never created, or removed by a sweep) fails with 404 and returns no
\* stored data; a record stays in the store until a sweep removes it, and
\* until then download_reconstructed and download_dna / download_image
\* return the artifact it stores, whatever its age.
AbsentLookupFails ==
    resp.op \in DownloadOps =>
        IF resp.job_id \notin DOMAIN JOBS
        THEN resp.status = 404 /\ resp.body = <<>>
        ELSE LET job == JOBS[resp.job_id]
             IN  /\ (resp.op = "download_reconstructed" /\ "recon_png_bytes" \in DOMAIN job)
                        => (resp.status = 200 /\ resp.body = job.recon_png_bytes)
                 /\ (resp.op = "download_dna" /\ "dna" \in DOMAIN job)
                        => (resp.status = 200 /\ resp.body = job.dna)
                 /\ (resp.op = "download_image" /\ "png_bytes" \in DOMAIN job)
                        => (resp.status = 200 /\ resp.body = job.png_bytes)

\* A download of a job that a sweep removed.
AbsentLookupFailsWitness ==
    /\ resp.op \in DownloadOps
    /\ resp.job_id >= 1 /\ resp.job_id < next_id
    /\ resp.job_id \notin DOMAIN JOBS
    /\ resp.status = 404

\* C8: unauthorized access.  With API_KEY configured, a request to encode,
\* decode or a download whose x-api-key header is missing or differs from
\* API_KEY is rejected with 401, returns no job data and leaves the job
\* store as it was; with API_KEY not configured no request is rejected
\* with 401.
UnauthorizedRejected ==
    [][/\ (API_KEY # "" /\ resp'.op \in DataOps /\ resp'.key # API_KEY) =>
            (resp'.status = 401 /\ resp'.body = <<>> /\ JOBS' = JOBS)
       /\ API_KEY = "" => resp'.status # 401]_vars

\* C9: failure isolation.  An encode, decode or download request that ends
\* in an error inserts no record and neither changes nor removes a record
\* whose age is within JOB_TTL_SEC; and no step changes a record that is in
\* the store before and after it.
FailureIsolation ==
    [][/\ (resp'.op \in DataOps /\ resp'.status # 200) =>
            /\ DOMAIN JOBS' \subseteq DOMAIN JOBS
            /\ \A jid \in DOMAIN JOBS :
                   Age(JOBS, jid, now) <= JOB_TTL_SEC =>
                       jid \in DOMAIN JOBS' /\ JOBS'[jid] = JOBS[jid]
       /\ \A jid \in DOMAIN JOBS \cap DOMAIN JOBS' : JOBS'[jid] = JOBS[jid]]_vars

\* After an encode request that failed past the key check, and whose sweep
\* removed one job and kept one whose age is exactly JOB_TTL_SEC.
FailureIsolationWitness ==
    /\ resp.op = "encode"
    /\ resp.status \in {400, 413}
    /\ \E jid \in 1..MaxJobs : jid < next_id /\ jid \notin DOMAIN JOBS
    /\ \E jid \in DOMAIN JOBS : Age(JOBS, jid, now) = JOB_TTL_SEC

\* C10: downloads are well defined on every stored job.  download_dna and
\* download_image return the stored artifact or fail with 404; for a job
\* created by decode_simple_json, which stores neither, they fail with 404.
DownloadsWellDefined ==
    resp.op \in {"download_dna", "download_image"} =>
        \/ resp.status = 404 /\ resp.body = <<>>
        \/ /\ resp.status = 200
           /\ resp.job_id \in DOMAIN JOBS
           /\ resp.body = IF resp.op = "download_dna"
                          THEN JOBS[resp.job_id].dna
                          ELSE JOBS[resp.job_id].png_bytes

====
